---- MODULE Spec2Model ----
(***************************************************************************)
(* Model of the ARP template Run Gateway (arp_template_run_gateway).       *)
(*                                                                         *)
(* RunGateway is either a proxy in front of a Run Coordinator (the field   *)
(* _run_coordinator holds a RunCoordinatorGatewayClient) or serves runs    *)
(* from the in-memory dict _runs (the field is None).                      *)
(*                                                                         *)
(* Modelling conventions                                                   *)
(*  - Python None is the empty tuple; an optional integer n is <<n>>.      *)
(*  - A URL is a sequence of characters; an optional URL u is <<u>>, so    *)
(*    that None and the empty string are different values.                 *)
(*  - A run-id string is a pair <<text, hex>>: a literal chosen by a       *)
(*    caller is <<text, 0>>, the f-string f"run_{uuid.uuid4().hex}" is     *)
(*    <<"run_", n>> where n numbers the uuid4() calls of the process.      *)
(*  - Run objects live in `heap`, a map from object references to field    *)
(*    values; the dict _runs maps a run id to the reference it holds, and  *)
(*    a Run returned to a caller is a reference too, so mutation in place  *)
(*    and construct-and-replace are different behaviours of the model.     *)
(*    The n-th object constructed for run id r has the reference <<r, n>>. *)
(*  - Every handler is a coroutine on one event loop: it runs from one     *)
(*    await to the next without interleaving.  A call is first scheduled   *)
(*    (Invoke), later its body runs.  The local bodies contain no await    *)
(*    and are one step; the proxy bodies await the adapter once, and the   *)
(*    downstream answer arrives in a later step (AdapterCall).             *)
(***************************************************************************)
EXTENDS Integers, Sequences, FiniteSets, TLC

VARIABLES
    run_coordinator,  \* self._run_coordinator: None or the adapter object
    runs,             \* self._runs: run id -> reference into heap
    heap,             \* the Run objects constructed so far: reference -> fields
    uuids,            \* number of uuid.uuid4() calls made so far
    call,             \* per caller: the call in flight or last finished
    ctor              \* RunGateway.__init__: its arguments and how far it is

vars == <<run_coordinator, runs, heap, uuids, call, ctor>>

-----------------------------------------------------------------------------
(* Bounds of the model *)

\* Run objects the gateway may construct before start/cancel are cut off.
MaxObjects == 3
\* uuid4() calls the process may make.
MaxUuid == 4

\* Two clients whose calls may be in flight at the same time.
Callers == {"c1", "c2"}

\* utils.now(): a reading of the wall clock.  The clock is outside the
\* program and need not advance between two readings; the code stores
\* readings and never compares them, so two distinct readings are enough to
\* tell a timestamp that was kept from one that was written again.
Times == {"t0", "t1"}

-----------------------------------------------------------------------------
(* Values *)

None == <<>>
Some(x) == <<x>>

Str(text) == <<text, 0>>
EmptyStr == Str("")
\* Python truthiness of an optional string: None and "" are falsy.
Truthy(s) == s # None /\ s # EmptyStr

\* An id generator that repeats itself
RunIdOfRepeated(hex) == <<"run_", 0>>
RunIdOf(hex) == <<"run_", hex>>
NodeRunIdOf(hex) == <<"node_run_", hex>>

Running == "running"
Succeeded == "succeeded"
Failed == "failed"
Canceled == "canceled"
TerminalStates == {Succeeded, Failed, Canceled}

StatusOk == "ok"
StatusDegraded == "degraded"
StatusDown == "down"

\* str(exc): the rendering of an exception, a function of the exception.
StrOf(exc) == [str_of |-> exc]
\* json.dumps(payload)
JsonDumps(payload) == [json |-> payload]

Return(v) == [kind |-> "return", value |-> v]
Raise(e) == [kind |-> "raise", value |-> e]
NoResult == [kind |-> "none", value |-> None]
\* No downstream call has completed
NoOutcome == [kind |-> "none", value |-> None]

ArpServerError(code, message, status_code, details) ==
    [code |-> code, message |-> message, status_code |-> status_code,
     details |-> details]

-----------------------------------------------------------------------------
(* utils.py *)

RECURSIVE RStripSlash(_)
RStripSlash(url) ==
    IF Len(url) > 0 /\ url[Len(url)] = "/"
    THEN RStripSlash(SubSeq(url, 1, Len(url) - 1))
    ELSE url

EndsWithV1(url) ==
    /\ Len(url) >= 3
    /\ SubSeq(url, Len(url) - 2, Len(url)) = <<"/", "v", "1">>

normalize_base_url(url) ==
    LET normalized == RStripSlash(url)
    IN  IF EndsWithV1(normalized)
        THEN SubSeq(normalized, 1, Len(normalized) - 3)
        ELSE normalized

\* `not url` for an optional string: None and "" are falsy
UrlFalsy(url) == url = None \/ url = Some(<<>>)

run_coordinator_url_from_env(env) ==
    IF UrlFalsy(env) THEN None ELSE Some(normalize_base_url(env[1]))

-----------------------------------------------------------------------------
(* RunGateway.__init__ *)

CoordinatorTestUrl == <<"h">>

\* Constructor inputs: an injected adapter or None, an explicit URL or None
\* (None and "" are both falsy), the ARP_RUN_COORDINATOR_URL variable or None.
CtorArgs ==
    [ run_coordinator : {None, [base_url |-> CoordinatorTestUrl]},
      run_coordinator_url : {None, Some(<<"h", "/", "v", "1", "/">>)},
      env_url : {None, Some(<<"h", "/">>)} ]

Construct(args) ==
    IF args.run_coordinator # None
    THEN args.run_coordinator
    ELSE LET resolved_url ==
                 IF ~UrlFalsy(args.run_coordinator_url)
                 THEN args.run_coordinator_url
                 ELSE run_coordinator_url_from_env(args.env_url)
         IN  IF resolved_url = None
             THEN None
             ELSE [base_url |-> normalize_base_url(resolved_url[1])]

Idle == [phase |-> "idle", op |-> "none", arg |-> None, seen |-> None,
         res |-> NoResult, registry |-> FALSE, attempts |-> 0,
         down |-> NoOutcome, got |-> NoResult]

\* __init__ has returned
Constructed ==
    [stage |-> "done", run_coordinator_url |-> None, env_url |-> None,
     resolved_url |-> None]

Init ==
    /\ \E args \in CtorArgs : run_coordinator = Construct(args)
    /\ runs = <<>>
    /\ heap = <<>>
    /\ uuids = 0
    /\ call = [p \in Callers |-> Idle]
    /\ ctor = Constructed

-----------------------------------------------------------------------------
(* Requests *)

CallerRunIds == {Str("run_1")}

\* A caller names a run by a literal of its own or by an id the gateway
\* handed out earlier (every such id is a key of _runs).
KnownRunIds == CallerRunIds \cup DOMAIN runs

\* RunStartRequest: run_id is optional; run_context and extensions are
\* opaque and optional.  root_node_type_ref and input are not read locally.
StartBodies ==
    { [run_id |-> r, run_context |-> None, extensions |-> None] :
        r \in {None, EmptyStr} }
    \cup { [run_id |-> r, run_context |-> Some("ctx"),
            extensions |-> Some("ext")] : r \in KnownRunIds }

\* The run id a request is about, as the handler will use it
RequestedRunId(req) ==
    CASE req.op = "start_run" -> req.arg.run_id
      [] req.op \in {"get_run", "cancel_run"} -> req.arg
      [] OTHER -> None

\* self._runs.get(run_id): the stored reference, or None
Get(run_id) == IF run_id \in DOMAIN runs THEN Some(runs[run_id]) ELSE None

Requests ==
    {[op |-> "health", arg |-> None], [op |-> "version", arg |-> None]}
    \cup {[op |-> "start_run", arg |-> b] : b \in StartBodies}
    \cup {[op |-> o, arg |-> r] :
            o \in {"get_run", "cancel_run", "stream_run_events"},
            r \in KnownRunIds}

\* The framework schedules the handler coroutine for a request.  `seen` is
\* what a lookup of the requested run id gives at this moment; the handlers
\* do not read it.
Invoke(p) ==
    /\ call[p].phase \in {"idle", "done"}
    /\ \E req \in Requests :
         call' = [call EXCEPT ![p] =
                    [phase |-> "pending", op |-> req.op, arg |-> req.arg,
                     seen |-> Get(RequestedRunId(req)), res |-> NoResult,
                     registry |-> FALSE, attempts |-> 0,
                     down |-> NoOutcome, got |-> NoResult]]
    /\ UNCHANGED <<run_coordinator, runs, heap, uuids, ctor>>

Pending(p, op) == call[p].phase = "pending" /\ call[p].op = op

\* The handler of p returns or raises `res`; `reg` tells whether it went
\* through self._runs.
Finish(p, res, reg) ==
    call' = [call EXCEPT ![p].phase = "done", ![p].res = res,
                         ![p].registry = reg]

-----------------------------------------------------------------------------
(* Dispatch and the proxy path *)

\* `if self._run_coordinator is not None:` at the head of each handler
ProxiedNotStart(op) == run_coordinator # None /\ op # "start_run"
Proxied(op) == run_coordinator # None

\* `return await self._run_coordinator.<op>(...)`: the adapter's _call hands
\* the blocking client call to a worker thread and the coroutine suspends.
Delegate(p) ==
    /\ call' = [call EXCEPT ![p].phase = "awaiting",
                            ![p].attempts = @ + 1]
    /\ UNCHANGED <<run_coordinator, runs, heap, uuids, ctor>>

-----------------------------------------------------------------------------
(* The local registry *)

\* The lookup the body of the call of p makes in self._runs: it reads the
\* dict as it is when the body runs, and no await separates the read from
\* the write that follows it.
LookupWhenScheduled(p, run_id) ==
    IF run_id = RequestedRunId(call[p]) THEN call[p].seen ELSE Get(run_id)
Lookup(p, run_id) == Get(run_id)

IsTerminalFinishedOnly(run) == run.state \in {Succeeded, Failed}
\* `run.state in {RunState.succeeded, RunState.failed, RunState.canceled}`
IsTerminal(run) == run.state \in TerminalStates

\* RunGateway._get_local_run: the stored reference, or run_not_found
RunNotFound(run_id) ==
    ArpServerError("run_not_found", <<"Run '", run_id, "' not found">>,
                   Some(404), None)

GetLocalRunRunningOnly(p, run_id) ==
    LET run == Lookup(p, run_id)
    IN  IF run = None \/ IsTerminal(heap[run[1]])
        THEN Raise(RunNotFound(run_id))
        ELSE Return([ref |-> run[1]])
GetLocalRun(p, run_id) ==
    LET run == Lookup(p, run_id)
    IN  IF run = None
        THEN Raise(RunNotFound(run_id))
        ELSE Return([ref |-> run[1]])

RunAlreadyExists(run_id) ==
    ArpServerError("run_already_exists",
                   <<"Run '", run_id, "' already exists">>, Some(409), None)

\* `run_id in self._runs`
RunExistsNever(p, run_id) == FALSE
RunExistsRunningOnly(p, run_id) ==
    /\ Lookup(p, run_id) # None
    /\ heap[Lookup(p, run_id)[1]].state = Running
RunExists(p, run_id) == Lookup(p, run_id) # None

\* `self._runs[run_id] = ref`
Store(run_id, ref) ==
    [k \in DOMAIN runs \cup {run_id} |-> IF k = run_id THEN ref ELSE runs[k]]

\* The reference of the next object constructed for run_id
NewRef(run_id) ==
    <<run_id, Cardinality({o \in DOMAIN heap : o[1] = run_id})>>

\* The heap with a newly constructed object
Allocate(ref, run) ==
    [o \in DOMAIN heap \cup {ref} |-> IF o = ref THEN run ELSE heap[o]]

Objects == Cardinality(DOMAIN heap)

\* Run(run_id=..., state=running, ..., started_at=now(), ended_at=None, ...)
NewRun(run_id, root, body, t) ==
    [run_id |-> run_id, state |-> Running, root_node_run_id |-> root,
     run_context |-> body.run_context, started_at |-> t, ended_at |-> None,
     extensions |-> body.extensions]

\* A copy rebuilt from the required fields only
CanceledCopyRequiredOnly(run, t) ==
    [run EXCEPT !.state = Canceled, !.ended_at = Some(t),
                !.run_context = None, !.extensions = None]
\* run.model_copy(update={"state": canceled, "ended_at": now()})
CanceledCopyNoEnd(run, t) == [run EXCEPT !.state = Canceled]
CanceledCopy(run, t) ==
    [run EXCEPT !.state = Canceled, !.ended_at = Some(t)]

-----------------------------------------------------------------------------
(* Handlers *)

\* A start_run that resets the record it finds before rejecting the call
StartRunLocalResetting(p) ==
    LET body == call[p].arg
        fresh == ~Truthy(body.run_id)
        run_id == IF fresh THEN RunIdOf(uuids + 1) ELSE body.run_id
        drawn == IF fresh THEN uuids + 1 ELSE uuids
    IN  /\ IF RunExists(p, run_id)
           THEN /\ drawn <= MaxUuid
                /\ Finish(p, Raise(RunAlreadyExists(run_id)), TRUE)
                /\ uuids' = drawn
                /\ heap' = [heap EXCEPT ![runs[run_id]].state = Running,
                                        ![runs[run_id]].ended_at = None]
                /\ UNCHANGED runs
           ELSE /\ drawn + 1 <= MaxUuid
                /\ Objects < MaxObjects
                /\ \E t \in Times :
                     /\ heap' = Allocate(NewRef(run_id),
                                   NewRun(run_id, NodeRunIdOf(drawn + 1),
                                          body, t))
                     /\ runs' = Store(run_id, NewRef(run_id))
                     /\ uuids' = drawn + 1
                     /\ Finish(p, Return([ref |-> NewRef(run_id)]), TRUE)
        /\ UNCHANGED <<run_coordinator, ctor>>
StartRunLocal(p) ==
    LET body == call[p].arg
        fresh == ~Truthy(body.run_id)
        run_id == IF fresh THEN RunIdOf(uuids + 1) ELSE body.run_id
        drawn == IF fresh THEN uuids + 1 ELSE uuids
    IN  /\ IF RunExists(p, run_id)
           THEN /\ drawn <= MaxUuid
                /\ Finish(p, Raise(RunAlreadyExists(run_id)), TRUE)
                /\ uuids' = drawn
                /\ UNCHANGED <<runs, heap>>
           ELSE /\ drawn + 1 <= MaxUuid
                /\ Objects < MaxObjects
                /\ \E t \in Times :
                     /\ heap' = Allocate(NewRef(run_id),
                                   NewRun(run_id, NodeRunIdOf(drawn + 1),
                                          body, t))
                     /\ runs' = Store(run_id, NewRef(run_id))
                     /\ uuids' = drawn + 1
                     /\ Finish(p, Return([ref |-> NewRef(run_id)]), TRUE)
        /\ UNCHANGED <<run_coordinator, ctor>>

StartRun(p) ==
    /\ Pending(p, "start_run")
    /\ IF Proxied("start_run") THEN Delegate(p) ELSE StartRunLocal(p)

GetRun(p) ==
    /\ Pending(p, "get_run")
    /\ IF Proxied("get_run")
       THEN Delegate(p)
       ELSE /\ Finish(p, GetLocalRun(p, call[p].arg), TRUE)
            /\ UNCHANGED <<run_coordinator, runs, heap, uuids, ctor>>

\* The two assignments that end cancel_run: a new object is stored under
\* the run id and returned; the object found by the lookup is left alone.
CancelInPlace(p, old, updated) ==
    /\ heap' = [heap EXCEPT ![old] = updated]
    /\ runs' = runs
    /\ Finish(p, Return([ref |-> old]), TRUE)
CancelNoStore(p, old, updated) ==
    /\ heap' = Allocate(NewRef(updated.run_id), updated)
    /\ runs' = runs
    /\ Finish(p, Return([ref |-> NewRef(updated.run_id)]), TRUE)
CancelReplace(p, old, updated) ==
    /\ heap' = Allocate(NewRef(updated.run_id), updated)
    /\ runs' = Store(updated.run_id, NewRef(updated.run_id))
    /\ Finish(p, Return([ref |-> NewRef(updated.run_id)]), TRUE)

CancelRunLocal(p) ==
    LET found == GetLocalRun(p, call[p].arg)
    IN  /\ IF found.kind = "raise"
           THEN /\ Finish(p, found, TRUE)
                /\ UNCHANGED <<runs, heap>>
           ELSE LET run == heap[found.value.ref]
                IN  IF IsTerminal(run)
                    THEN /\ Finish(p, found, TRUE)
                         /\ UNCHANGED <<runs, heap>>
                    ELSE /\ Objects < MaxObjects
                         /\ \E t \in Times :
                              CancelReplace(p, found.value.ref,
                                            CanceledCopy(run, t))
        /\ UNCHANGED <<run_coordinator, uuids, ctor>>

CancelRun(p) ==
    /\ Pending(p, "cancel_run")
    /\ IF Proxied("cancel_run") THEN Delegate(p) ELSE CancelRunLocal(p)

\* The one synthetic event of the local fallback; _runs is not consulted.
LocalEvent(run_id, t) ==
    <<JsonDumps([run_id |-> run_id, seq |-> 0, type |-> "run_started",
                 time |-> t,
                 data |-> [message |->
                   "Template Run Gateway does not stream real events yet."]]),
      "\n">>

\* A stream that looks the run up first, as get_run does
StreamRunEventsOfStored(p) ==
    /\ Pending(p, "stream_run_events")
    /\ IF Proxied("stream_run_events")
       THEN Delegate(p)
       ELSE /\ \E t \in Times :
                 Finish(p, IF call[p].arg \in DOMAIN runs
                           THEN Return(LocalEvent(call[p].arg, t))
                           ELSE Raise(RunNotFound(call[p].arg)), TRUE)
            /\ UNCHANGED <<run_coordinator, runs, heap, uuids, ctor>>
StreamRunEvents(p) ==
    /\ Pending(p, "stream_run_events")
    /\ IF Proxied("stream_run_events")
       THEN Delegate(p)
       ELSE /\ \E t \in Times :
                 Finish(p, Return(LocalEvent(call[p].arg, t)), FALSE)
            /\ UNCHANGED <<run_coordinator, runs, heap, uuids, ctor>>

ServiceName == "arp-template-run-gateway"
ServiceVersion == "__version__"

Version(p) ==
    /\ Pending(p, "version")
    /\ Finish(p, Return([service_name |-> ServiceName,
                         service_version |-> ServiceVersion,
                         supported_api_versions |-> <<"v1">>]), FALSE)
    /\ UNCHANGED <<run_coordinator, runs, heap, uuids, ctor>>

-----------------------------------------------------------------------------
(* RunCoordinatorGatewayClient *)

\* What the blocking RunCoordinatorClient call does in its worker thread:
\* it returns a value, raises ArpApiError, or raises something else.
DownstreamChecks ==
    {None, <<>>, <<[name |-> "db", status |-> StatusDown,
                    message |-> None, details |-> None]>>}

DownstreamValues(op, arg) ==
    IF op = "health"
    THEN {[status |-> s, checks |-> cs] :
            s \in {StatusOk, StatusDegraded, StatusDown},
            cs \in DownstreamChecks}
    ELSE {[coordinator |-> op, request |-> arg]}

ApiErrors ==
    {[code |-> "run_not_found", message |-> "no such run",
      status_code |-> sc, details |-> None] : sc \in {None, Some(0), Some(404)}}

OtherFaults == {[exception |-> "TimeoutError"]}

DownstreamOutcomes(op, arg) ==
    {[kind |-> "ok", value |-> v] : v \in DownstreamValues(op, arg)}
    \cup {[kind |-> "api_error", value |-> e] : e \in ApiErrors}
    \cup {[kind |-> "fault", value |-> f] : f \in OtherFaults}

\* `exc.status_code or 502`: None and 0 are falsy
StatusOr502(status_code) ==
    IF status_code = None \/ status_code = Some(0)
    THEN Some(502)
    ELSE status_code

\* _call without its `except Exception` clause: other faults pass through
AdapterResultFaultEscapes(outcome) ==
    CASE outcome.kind = "ok" -> Return(outcome.value)
      [] outcome.kind = "api_error" ->
           Raise(ArpServerError(outcome.value.code, outcome.value.message,
                                StatusOr502(outcome.value.status_code),
                                outcome.value.details))
      [] outcome.kind = "fault" -> Raise(outcome.value)
\* RunCoordinatorGatewayClient._call
AdapterResult(outcome) ==
    CASE outcome.kind = "ok" -> Return(outcome.value)
      [] outcome.kind = "api_error" ->
           Raise(ArpServerError(outcome.value.code, outcome.value.message,
                                StatusOr502(outcome.value.status_code),
                                outcome.value.details))
      [] outcome.kind = "fault" ->
           Raise(ArpServerError("run_coordinator_unavailable",
                                "Run Coordinator request failed", Some(502),
                                [run_coordinator_url |->
                                     run_coordinator.base_url,
                                 error |-> StrOf(outcome.value)]))

-----------------------------------------------------------------------------
(* health *)

\* A report that depends on the registry: degraded once a run is stored
LocalHealthCountsRuns(t) ==
    [status |-> IF DOMAIN runs = {} THEN StatusOk ELSE StatusDegraded,
     time |-> t, checks |-> None]
\* No coordinator: Health(status=ok, time=now()), checks left unset
LocalHealth(t) == [status |-> StatusOk, time |-> t, checks |-> None]

\* The adapter's health() raised exc
HealthOnFailureDown(exc, t) ==
    [status |-> StatusDown, time |-> t,
     checks |-> <<[name |-> "run_coordinator", status |-> StatusDown,
                   message |-> Some(StrOf(exc)),
                   details |-> [url |-> run_coordinator.base_url]]>>]
HealthOnFailure(exc, t) ==
    [status |-> StatusDegraded, time |-> t,
     checks |-> <<[name |-> "run_coordinator", status |-> StatusDown,
                   message |-> Some(StrOf(exc)),
                   details |-> [url |-> run_coordinator.base_url]]>>]

\* The extend of the coordinator's own checks left out
HealthOnSuccessOwnCheckOnly(downstream_health, t) ==
    [status |-> downstream_health.status, time |-> t,
     checks |-> <<[name |-> "run_coordinator",
                   status |-> downstream_health.status,
                   message |-> None,
                   details |-> [url |-> run_coordinator.base_url,
                                status |-> downstream_health.status]]>>]

\* The adapter's health() returned downstream_health
HealthOnSuccess(downstream_health, t) ==
    LET check == [name |-> "run_coordinator",
                  status |-> downstream_health.status,
                  message |-> None,
                  details |-> [url |-> run_coordinator.base_url,
                               status |-> downstream_health.status]]
        \* `if downstream_health.checks:` None and [] are falsy
        checks == IF downstream_health.checks = None
                  THEN <<check>>
                  ELSE <<check>> \o downstream_health.checks
    IN  [status |-> downstream_health.status, time |-> t, checks |-> checks]

Health(p) ==
    /\ Pending(p, "health")
    /\ IF Proxied("health")
       THEN Delegate(p)
       ELSE /\ \E t \in Times : Finish(p, Return(LocalHealth(t)), FALSE)
            /\ UNCHANGED <<run_coordinator, runs, heap, uuids, ctor>>

\* A second attempt after a failed downstream call
AdapterCallRetrying(p) ==
    /\ call[p].phase = "awaiting"
    /\ \E outcome \in DownstreamOutcomes(call[p].op, call[p].arg), t \in Times :
         LET got == AdapterResult(outcome)
             res == IF call[p].op # "health" THEN got
                    ELSE IF got.kind = "raise"
                         THEN Return(HealthOnFailure(got.value, t))
                         ELSE Return(HealthOnSuccess(got.value, t))
         IN  IF got.kind = "raise" /\ call[p].attempts < 2
             THEN call' = [call EXCEPT ![p].attempts = @ + 1]
             ELSE call' = [call EXCEPT ![p].phase = "done", ![p].res = res,
                                       ![p].down = outcome, ![p].got = got]
    /\ UNCHANGED <<run_coordinator, runs, heap, uuids, ctor>>
\* The awaited adapter call completes and the handler runs to its end:
\* health builds its report, the other handlers return or raise what the
\* adapter returned or raised.
AdapterCall(p) ==
    /\ call[p].phase = "awaiting"
    /\ \E outcome \in DownstreamOutcomes(call[p].op, call[p].arg), t \in Times :
         LET got == AdapterResult(outcome)
             res == IF call[p].op # "health" THEN got
                    ELSE IF got.kind = "raise"
                         THEN Return(HealthOnFailure(got.value, t))
                         ELSE Return(HealthOnSuccess(got.value, t))
         IN  call' = [call EXCEPT ![p].phase = "done", ![p].res = res,
                                  ![p].down = outcome, ![p].got = got]
    /\ UNCHANGED <<run_coordinator, runs, heap, uuids, ctor>>

-----------------------------------------------------------------------------

Next ==
    \E p \in Callers :
        \/ Invoke(p)
        \/ Health(p)
        \/ Version(p)
        \/ StartRun(p)
        \/ GetRun(p)
        \/ CancelRun(p)
        \/ StreamRunEvents(p)
        \/ AdapterCall(p)

Spec == Init /\ [][Next]_vars

-----------------------------------------------------------------------------
(* RunGateway.__init__ statement by statement, on URLs drawn from a        *)
(* bounded set                                                             *)

\* Longest URL drawn
MaxUrlLen == 5

\* The characters URLs are made of: a host letter, the slash, and the two
\* characters of the path segment "v1"
UrlChars == {"h", "/", "v", "1"}

Urls == UNION {[1..n -> UrlChars] : n \in 0..MaxUrlLen}

\* No adapter is injected; one URL reaches __init__, as the
\* run_coordinator_url argument or in ARP_RUN_COORDINATOR_URL.
InitUrl ==
    /\ \E u \in Urls, source \in {"argument", "environment"} :
         ctor = [stage |-> "args",
                 run_coordinator_url |->
                     IF source = "argument" THEN Some(u) ELSE None,
                 env_url |->
                     IF source = "environment" THEN Some(u) ELSE None,
                 resolved_url |-> None]
    /\ run_coordinator = None
    /\ runs = <<>>
    /\ heap = <<>>
    /\ uuids = 0
    /\ call = [p \in Callers |-> Idle]

\* `resolved_url = run_coordinator_url or run_coordinator_url_from_env()`
ResolveUrl ==
    /\ ctor.stage = "args"
    /\ ctor' = [ctor EXCEPT
                  !.stage = "resolved",
                  !.resolved_url =
                      IF ~UrlFalsy(ctor.run_coordinator_url)
                      THEN ctor.run_coordinator_url
                      ELSE run_coordinator_url_from_env(ctor.env_url)]
    /\ UNCHANGED <<run_coordinator, runs, heap, uuids, call>>

\* `if resolved_url is None:` the gateway is local; otherwise the URL is
\* normalized and handed to the adapter as its base_url.
BuildAdapter ==
    /\ ctor.stage = "resolved"
    /\ run_coordinator' =
         IF ctor.resolved_url = None
         THEN None
         ELSE [base_url |-> normalize_base_url(ctor.resolved_url[1])]
    /\ ctor' = [ctor EXCEPT !.stage = "done"]
    /\ UNCHANGED <<runs, heap, uuids, call>>

NextUrl == ResolveUrl \/ BuildAdapter

SpecUrl == InitUrl /\ [][NextUrl]_vars

-----------------------------------------------------------------------------
(* Properties *)

LocalMode == run_coordinator = None
ProxyMode == run_coordinator # None

Done(p, op) == call[p].phase = "done" /\ call[p].op = op
Returned(p) == call[p].res.kind = "return"
Raised(p, code, status) ==
    /\ call[p].res.kind = "raise"
    /\ call[p].res.value.code = code
    /\ call[p].res.value.status_code = Some(status)

\* The body of the pending call `op` of p runs to its end in this step.
Completes(p, op) ==
    /\ LocalMode
    /\ call[p].phase = "pending" /\ call[p].op = op
    /\ call'[p].phase = "done"

Stored(run_id) == heap[runs[run_id]]

\* C1: a stored run's state either stays as it is or goes from running to a
\* terminal state; a run in a terminal state keeps its state for ever.
C1_StateTransitions ==
    [][\A r \in DOMAIN runs :
         r \in DOMAIN runs' =>
           LET before == heap[runs[r]].state
               after == heap'[runs'[r]].state
           IN  \/ after = before
               \/ before = Running /\ after \in TerminalStates]_vars

\* C1 witness: a run was canceled and a later start_run on its id, scheduled
\* when the run was already canceled, has been answered.
C1_Witness ==
    \E p \in Callers :
        /\ LocalMode /\ Done(p, "start_run")
        /\ call[p].seen # None
        /\ heap[call[p].seen[1]].state = Canceled
        /\ Stored(call[p].arg.run_id).state = Canceled

\* C2: for every stored run, ended_at is set exactly when the state is
\* terminal.
C2_EndedIffTerminal ==
    \A r \in DOMAIN runs :
        (Stored(r).ended_at # None) <=> (Stored(r).state \in TerminalStates)

\* C2 witness: the registry holds a canceled run with ended_at set and a
\* running run without.
C2_Witness ==
    \E r1, r2 \in DOMAIN runs :
        /\ Stored(r1).state = Canceled /\ Stored(r1).ended_at # None
        /\ Stored(r2).state = Running /\ Stored(r2).ended_at = None

\* C3: in local mode start_run with a caller-supplied run_id that is a key
\* of the registry raises run_already_exists with status 409, whether the
\* stored run is running or terminal.
C3_StartExistingFails ==
    [][\A p \in Callers :
         (/\ Completes(p, "start_run")
          /\ Truthy(call[p].arg.run_id)
          /\ call[p].arg.run_id \in DOMAIN runs)
         => /\ call'[p].res.kind = "raise"
            /\ call'[p].res.value.code = "run_already_exists"
            /\ call'[p].res.value.status_code = Some(409)]_vars

\* C3 witness: one start_run was refused for a run that is still running,
\* another for a run that was already canceled when the call was scheduled.
C3_Witness ==
    \E p, q \in Callers :
        /\ LocalMode
        /\ Done(p, "start_run") /\ Raised(p, "run_already_exists", 409)
        /\ Stored(call[p].arg.run_id).state = Running
        /\ Done(q, "start_run") /\ Raised(q, "run_already_exists", 409)
        /\ call[q].seen # None
        /\ heap[call[q].seen[1]].state = Canceled

\* C4: in local mode get_run and cancel_run raise run_not_found with status
\* 404 for a run_id that is not a key of the registry, and return for one
\* that is.
C4_NotFoundIffAbsent ==
    [][\A p \in Callers :
         \A op \in {"get_run", "cancel_run"} :
           Completes(p, op) =>
             IF call[p].arg \in DOMAIN runs
             THEN call'[p].res.kind = "return"
             ELSE /\ call'[p].res.kind = "raise"
                  /\ call'[p].res.value.code = "run_not_found"
                  /\ call'[p].res.value.status_code = Some(404)]_vars

\* C4 witness: a cancel_run was refused with run_not_found while a get_run
\* on a canceled run returned it.
C4_Witness ==
    \E p, q \in Callers :
        /\ LocalMode
        /\ Done(p, "cancel_run") /\ Raised(p, "run_not_found", 404)
        /\ Done(q, "get_run") /\ Returned(q)
        /\ heap[call[q].res.value.ref].state = Canceled

\* C5: cancel_run on a running run stores and returns a new record, state
\* canceled and ended_at set, and leaves every record that existed before
\* as it was: the record found by the lookup is still running, ended_at
\* unset.
C5_CancelReplaces ==
    [][\A p \in Callers :
         (/\ Completes(p, "cancel_run")
          /\ call[p].arg \in DOMAIN runs
          /\ Stored(call[p].arg).state = Running)
         => LET old == runs[call[p].arg]
                new == call'[p].res.value.ref
            IN  /\ call'[p].res.kind = "return"
                /\ new # old
                /\ runs'[call[p].arg] = new
                /\ heap'[new].state = Canceled
                /\ heap'[new].ended_at # None
                /\ \A o \in DOMAIN heap : heap'[o] = heap[o]
                /\ heap'[old].state = Running
                /\ heap'[old].ended_at = None]_vars

\* C5 witness: one caller holds the record start_run returned, still running
\* with ended_at unset, while another holds the canceled record cancel_run
\* returned for the same run.
C5_Witness ==
    \E p, q \in Callers :
        /\ LocalMode
        /\ Done(p, "start_run") /\ Returned(p)
        /\ Done(q, "cancel_run") /\ Returned(q)
        /\ LET old == call[p].res.value.ref
               new == call[q].res.value.ref
           IN  /\ heap[old].run_id = call[q].arg
               /\ heap[old].state = Running /\ heap[old].ended_at = None
               /\ heap[new].state = Canceled /\ heap[new].ended_at # None
               /\ runs[call[q].arg] = new

\* C6: cancel_run on a run that is already terminal returns the stored
\* record and changes neither the registry nor any record; whatever is
\* called, an ended_at that is set keeps its value.
C6_CancelIdempotent ==
    [][/\ \A p \in Callers :
            (/\ Completes(p, "cancel_run")
             /\ call[p].arg \in DOMAIN runs
             /\ Stored(call[p].arg).state \in TerminalStates)
            => /\ call'[p].res = Return([ref |-> runs[call[p].arg]])
               /\ runs' = runs
               /\ heap' = heap
       /\ \A r \in DOMAIN runs :
            Stored(r).ended_at # None =>
              /\ r \in DOMAIN runs'
              /\ heap'[runs'[r]].ended_at = Stored(r).ended_at]_vars

\* C6 witness: two cancel_run calls on the same run have returned, the second
\* scheduled when the run was already canceled, both with the same record.
C6_Witness ==
    \E p, q \in Callers :
        /\ p # q /\ LocalMode
        /\ Done(p, "cancel_run") /\ Returned(p)
        /\ Done(q, "cancel_run") /\ Returned(q)
        /\ call[p].arg = call[q].arg
        /\ call[q].seen # None
        /\ heap[call[q].seen[1]].state = Canceled
        /\ call[p].res.value.ref = call[q].res.value.ref
        /\ Stored(call[p].arg).state = Canceled

\* C7: get_run(r) returns the record that the last successful start_run or
\* cancel_run on r returned: the very record another caller got from
\* cancel_run(r), and, as long as r has not been canceled, the very record
\* another caller got from start_run.
C7_GetReturnsStored ==
    [][\A p \in Callers :
         (Completes(p, "get_run") /\ call[p].arg \in DOMAIN runs)
         => /\ call'[p].res.kind = "return"
            /\ heap'[call'[p].res.value.ref].run_id = call[p].arg
            /\ \A q \in Callers \ {p} :
                 (/\ call[q].phase = "done"
                  /\ call[q].op \in {"start_run", "cancel_run"}
                  /\ call[q].res.kind = "return"
                  /\ heap[call[q].res.value.ref].run_id = call[p].arg
                  /\ \/ call[q].op = "cancel_run"
                     \/ Stored(call[p].arg).state = Running)
                 => call'[p].res.value.ref = call[q].res.value.ref]_vars

\* C7 witness: start_run returned a running record with started_at set and
\* ended_at unset, and a get_run scheduled afterwards returned the same
\* record.
C7_Witness ==
    \E p, q \in Callers :
        /\ LocalMode
        /\ Done(p, "start_run") /\ Returned(p)
        /\ Done(q, "get_run") /\ Returned(q)
        /\ call[q].seen = Some(call[p].res.value.ref)
        /\ call[q].res.value.ref = call[p].res.value.ref
        /\ heap[call[p].res.value.ref].state = Running
        /\ heap[call[p].res.value.ref].ended_at = None

\* C8: the mode never changes; in proxy mode the registry stays empty and no
\* call goes through it; in local mode no call reaches the adapter; no call
\* uses both.
C8_ModeFixed ==
    /\ [][run_coordinator' = run_coordinator]_vars
    /\ [](/\ ProxyMode =>
               /\ runs = <<>> /\ heap = <<>>
               /\ \A p \in Callers : ~call[p].registry
          /\ LocalMode =>
               \A p \in Callers :
                   call[p].attempts = 0 /\ call[p].phase # "awaiting"
          /\ \A p \in Callers : ~(call[p].registry /\ call[p].attempts > 0))

\* C8 witness: in proxy mode a start_run and a get_run have been answered
\* through the adapter.
C8_Witness ==
    \E p, q \in Callers :
        /\ ProxyMode
        /\ Done(p, "start_run") /\ call[p].attempts = 1
        /\ Done(q, "get_run") /\ call[q].attempts = 1
        /\ runs = <<>>

\* C9: of the start_run calls on one caller-supplied run_id at most one
\* returns and the others raise run_already_exists; a start_run is refused
\* only for an id the registry holds; the cancel_run calls on one run all
\* return the same record; and for each run id at most one running and at
\* most one canceled record was ever constructed.
C9_CheckThenActAtomic ==
    /\ \A p, q \in Callers :
         (/\ p # q
          /\ Done(p, "start_run") /\ Done(q, "start_run") /\ LocalMode
          /\ Truthy(call[p].arg.run_id)
          /\ call[p].arg.run_id = call[q].arg.run_id)
         => /\ ~(Returned(p) /\ Returned(q))
            /\ ~Returned(q) => Raised(q, "run_already_exists", 409)
    /\ \A p \in Callers :
         (Done(p, "start_run") /\ LocalMode /\ ~Returned(p))
         => call[p].arg.run_id \in DOMAIN runs
    /\ \A p, q \in Callers :
         (/\ Done(p, "cancel_run") /\ Done(q, "cancel_run") /\ LocalMode
          /\ Returned(p) /\ Returned(q)
          /\ call[p].arg = call[q].arg)
         => call[p].res.value.ref = call[q].res.value.ref
    /\ \A o1, o2 \in DOMAIN heap :
         (heap[o1].run_id = heap[o2].run_id /\ heap[o1].state = heap[o2].state)
         => o1 = o2

\* C9 witness: two start_run calls with the same caller-supplied id were both
\* scheduled while the id was absent; one returned, the other was refused.
C9_Witness ==
    \E p, q \in Callers :
        /\ p # q /\ LocalMode
        /\ Done(p, "start_run") /\ Done(q, "start_run")
        /\ Truthy(call[p].arg.run_id)
        /\ call[p].arg.run_id = call[q].arg.run_id
        /\ call[p].seen = None /\ call[q].seen = None
        /\ Returned(p)
        /\ Raised(q, "run_already_exists", 409)

\* C10: when the adapter's health call raises, health() returns a report
\* with status degraded and exactly one check: name run_coordinator, status
\* down, message the string of the exception, details the coordinator URL.
C10_HealthFailureDegraded ==
    \A p \in Callers :
        (Done(p, "health") /\ call[p].got.kind = "raise")
        => /\ call[p].res.kind = "return"
           /\ call[p].res.value.status = StatusDegraded
           /\ Len(call[p].res.value.checks) = 1
           /\ LET check == call[p].res.value.checks[1]
              IN  /\ check.name = "run_coordinator"
                  /\ check.status = StatusDown
                  /\ check.message = Some(StrOf(call[p].got.value))
                  /\ check.details = [url |-> run_coordinator.base_url]

\* C10 witness: health() has answered after the coordinator call failed, once
\* with an API error and once with another fault.
C10_Witness ==
    \E p, q \in Callers :
        /\ Done(p, "health") /\ call[p].down.kind = "fault"
        /\ Done(q, "health") /\ call[q].down.kind = "api_error"
        /\ call[p].res.value.status = StatusDegraded
        /\ call[q].res.value.status = StatusDegraded

\* C11: when the adapter's health call returns a report with status s and
\* checks cs, health() returns status s and the check list is the
\* run_coordinator check with status s followed by cs in their order; the
\* top-level status is down only if the coordinator itself reported down.
C11_HealthMirrorsDownstream ==
    \A p \in Callers :
        Done(p, "health") /\ ProxyMode =>
          /\ call[p].res.kind = "return"
          /\ call[p].down.kind = "ok" =>
               LET s == call[p].down.value.status
                   cs == call[p].down.value.checks
                   checks == call[p].res.value.checks
               IN  /\ call[p].res.value.status = s
                   /\ Len(checks) = 1 + Len(cs)
                   /\ checks[1].name = "run_coordinator"
                   /\ checks[1].status = s
                   /\ SubSeq(checks, 2, Len(checks)) = cs
          /\ call[p].res.value.status = StatusDown =>
               /\ call[p].down.kind = "ok"
               /\ call[p].down.value.status = StatusDown

\* C11 witness: the coordinator reported degraded with one check of its own
\* and health() answered degraded with two checks, that one second.
C11_Witness ==
    \E p \in Callers :
        /\ Done(p, "health") /\ call[p].down.kind = "ok"
        /\ call[p].down.value.status = StatusDegraded
        /\ Len(call[p].down.value.checks) = 1
        /\ call[p].res.value.status = StatusDegraded
        /\ Len(call[p].res.value.checks) = 2
        /\ call[p].res.value.checks[1].name = "run_coordinator"
        /\ call[p].res.value.checks[2].name = "db"

\* C12: in local mode health() returns status ok with no checks, whatever
\* runs the registry holds, and leaves the registry as it was.
C12_LocalHealthOk ==
    [][\A p \in Callers :
         Completes(p, "health") =>
           /\ call'[p].res.kind = "return"
           /\ call'[p].res.value.status = StatusOk
           /\ call'[p].res.value.checks = None
           /\ runs' = runs
           /\ heap' = heap]_vars

\* C12 witness: a local health() has answered ok while the registry holds
\* a canceled run and a running run.
C12_Witness ==
    \E p \in Callers, r1, r2 \in DOMAIN runs :
        /\ LocalMode /\ Done(p, "health")
        /\ call[p].res.value.status = StatusOk
        /\ call[p].res.value.checks = None
        /\ Stored(r1).state = Canceled
        /\ Stored(r2).state = Running

C14_FaultMapped ==
    \A p \in Callers :
        call[p].phase = "done" =>
          /\ call[p].down.kind \in {"api_error", "fault"} =>
               /\ call[p].got.kind = "raise"
               /\ DOMAIN call[p].got.value =
                    {"code", "message", "status_code", "details"}
          /\ call[p].down.kind = "fault" =>
               /\ call[p].got.value.code = "run_coordinator_unavailable"
               /\ call[p].got.value.status_code = Some(502)
               /\ call[p].got.value.details =
                    [run_coordinator_url |-> run_coordinator.base_url,
                     error |-> StrOf(call[p].down.value)]

\* C14 witness: a health probe and a get_run both met a downstream timeout;
\* get_run raised the mapped error.
C14_Witness ==
    \E p, q \in Callers :
        /\ Done(p, "health") /\ call[p].down.kind = "fault"
        /\ call[p].got.kind = "raise"
        /\ call[p].got.value.code = "run_coordinator_unavailable"
        /\ Done(q, "get_run") /\ call[q].down.kind = "fault"
        /\ Raised(q, "run_coordinator_unavailable", 502)

\* C15: in proxy mode every start_run, get_run, cancel_run and
\* stream_run_events call issues exactly one downstream call and then
\* returns that call's result or raises its mapped error; a failed
\* downstream call is neither retried nor answered from the local registry.
C15_ProxySingleAttempt ==
    \A p \in Callers :
        /\ ProxyMode
        /\ call[p].op \in {"start_run", "get_run", "cancel_run",
                           "stream_run_events"}
        =>
          /\ call[p].phase = "pending" => call[p].attempts = 0
          /\ call[p].phase = "awaiting" => call[p].attempts = 1
          /\ call[p].phase = "done" =>
               /\ call[p].attempts = 1
               /\ call[p].registry = FALSE
               /\ runs = <<>>
               /\ call[p].res = call[p].got
               /\ call[p].down.kind = "ok" =>
                    call[p].res = Return(call[p].down.value)
               /\ call[p].down.kind \in {"api_error", "fault"} =>
                    call[p].res.kind = "raise"
               /\ call[p].down.kind # "none"

\* C15 witness: a proxied cancel_run raised the mapped error of its one
\* failed downstream call while a proxied start_run returned the
\* coordinator's result.
C15_Witness ==
    \E p, q \in Callers :
        /\ ProxyMode
        /\ Done(p, "cancel_run") /\ call[p].down.kind = "fault"
        /\ call[p].attempts = 1
        /\ Raised(p, "run_coordinator_unavailable", 502)
        /\ Done(q, "start_run") /\ call[q].down.kind = "ok"
        /\ call[q].res = Return(call[q].down.value)

\* C16: in local mode stream_run_events for any run_id, stored or not and
\* whatever the run's state, returns exactly one newline-terminated event
\* carrying that run_id, seq 0 and type run_started; it never fails with
\* run_not_found and leaves the registry as it was.
C16_LocalStreamOneEvent ==
    [][\A p \in Callers :
         Completes(p, "stream_run_events") =>
           /\ call'[p].res.kind = "return"
           /\ Len(call'[p].res.value) = 2
           /\ call'[p].res.value[2] = "\n"
           /\ LET payload == call'[p].res.value[1].json
              IN  /\ payload.run_id = call[p].arg
                  /\ payload.seq = 0
                  /\ payload.type = "run_started"
           /\ runs' = runs
           /\ heap' = heap]_vars

\* C16 witness: one caller streamed the events of a run id the registry
\* does not hold, the other those of a canceled run; both got the event.
C16_Witness ==
    \E p, q \in Callers :
        /\ LocalMode
        /\ Done(p, "stream_run_events") /\ call[p].arg \notin DOMAIN runs
        /\ call[p].res.kind = "return"
        /\ call[p].res.value[1].json.run_id = call[p].arg
        /\ Done(q, "stream_run_events") /\ call[q].arg \in DOMAIN runs
        /\ Stored(call[q].arg).state = Canceled
        /\ call[q].res.kind = "return"
        /\ call[q].res.value[1].json.type = "run_started"

\* C17: in local mode a start_run call that supplies no run_id succeeds and
\* the run_id it returns becomes a new key of the registry; two such calls
\* return distinct run_id values.
C17_FreshRunIdsDistinct ==
    /\ [][\A p \in Callers :
            Completes(p, "start_run") /\ ~Truthy(call[p].arg.run_id) =>
              /\ call'[p].res.kind = "return"
              /\ LET ref == call'[p].res.value.ref
                     id == heap'[ref].run_id
                 IN  /\ id \notin DOMAIN runs
                     /\ id \in DOMAIN runs'
                     /\ runs'[id] = ref]_vars
    /\ [](\A p, q \in Callers :
            /\ p # q /\ LocalMode
            /\ Done(p, "start_run") /\ ~Truthy(call[p].arg.run_id)
            /\ Done(q, "start_run") /\ ~Truthy(call[q].arg.run_id)
            => /\ call[p].res.kind = "return" /\ call[q].res.kind = "return"
               /\ heap[call[p].res.value.ref].run_id
                    # heap[call[q].res.value.ref].run_id)

\* C17 witness: two start_run calls without a run_id, one with run_id unset
\* and one with the empty string, have returned runs with different ids and
\* both ids are keys of the registry.
C17_Witness ==
    \E p, q \in Callers :
        /\ LocalMode
        /\ Done(p, "start_run") /\ call[p].arg.run_id = None
        /\ Done(q, "start_run") /\ call[q].arg.run_id = EmptyStr
        /\ Returned(p) /\ Returned(q)
        /\ LET rp == heap[call[p].res.value.ref].run_id
               rq == heap[call[q].res.value.ref].run_id
           IN  rp # rq /\ {rp, rq} \subseteq DOMAIN runs

\* C18: in local mode a call that fails leaves the registry exactly as it
\* was: a start_run rejected with run_already_exists leaves the existing
\* record as it is, and a get_run or cancel_run rejected with run_not_found
\* adds no entry.
C18_FailedCallNoEffect ==
    [][\A p \in Callers :
         /\ LocalMode
         /\ call[p].phase = "pending"
         /\ call'[p].phase = "done"
         /\ call'[p].res.kind = "raise"
         => /\ runs' = runs
            /\ heap' = heap]_vars

\* C18 witness: a start_run on the id of a canceled run was rejected with
\* run_already_exists and a cancel_run on an unknown id with run_not_found;
\* the canceled record is still stored.
C18_Witness ==
    \E p, q \in Callers :
        /\ LocalMode
        /\ Done(p, "start_run") /\ Raised(p, "run_already_exists", 409)
        /\ call[p].seen # None
        /\ heap[call[p].seen[1]].state = Canceled
        /\ Get(call[p].arg.run_id) = call[p].seen
        /\ Done(q, "cancel_run") /\ Raised(q, "run_not_found", 404)
        /\ call[q].arg \notin DOMAIN runs

\* C19: in local mode no operation removes a run from the registry and
\* every stored run keeps its run_id, root_node_run_id, run_context,
\* started_at and extensions; cancel_run(r) leaves every run other than r
\* exactly as it was.
C19_CancelFrame ==
    [][LocalMode =>
         /\ \A r \in DOMAIN runs :
              /\ r \in DOMAIN runs'
              /\ LET before == heap[runs[r]]
                     after == heap'[runs'[r]]
                 IN  /\ after.run_id = before.run_id
                     /\ after.root_node_run_id = before.root_node_run_id
                     /\ after.run_context = before.run_context
                     /\ after.started_at = before.started_at
                     /\ after.extensions = before.extensions
         /\ \A p \in Callers :
              Completes(p, "cancel_run") =>
                \A r \in DOMAIN runs \ {call[p].arg} :
                    /\ runs'[r] = runs[r]
                    /\ heap'[runs'[r]] = heap[runs[r]]]_vars

\* C19 witness: a cancel_run has canceled a run that carries a run_context
\* and extensions, which it still carries, while another run is stored and
\* running.
C19_Witness ==
    \E p \in Callers, r \in DOMAIN runs :
        /\ LocalMode /\ Done(p, "cancel_run") /\ Returned(p)
        /\ call[p].seen # None
        /\ heap[call[p].seen[1]].state = Running
        /\ Stored(call[p].arg).state = Canceled
        /\ Stored(call[p].arg).run_context = Some("ctx")
        /\ Stored(call[p].arg).extensions = Some("ext")
        /\ Stored(call[p].arg).started_at = heap[call[p].seen[1]].started_at
        /\ r # call[p].arg
        /\ Stored(r).state = Running

\* C20: base-URL normalization is idempotent: the normalized URL ends
\* neither in "/" nor in "/v1" and normalizing it again gives it back; so
\* the adapter gets the once-normalized URL as its base URL whether the URL
\* came as the argument (normalized once) or from the environment
\* (normalized twice).
C20_NormalizeIdempotent ==
    /\ ctor.stage = "done"
    /\ ctor.run_coordinator_url # None \/ ctor.env_url # None
    => LET u == IF ctor.run_coordinator_url # None
                THEN ctor.run_coordinator_url[1]
                ELSE ctor.env_url[1]
           once == normalize_base_url(u)
       IN  /\ normalize_base_url(once) = once
           /\ ~(Len(once) > 0 /\ once[Len(once)] = "/")
           /\ ~EndsWithV1(once)
           /\ run_coordinator # None => run_coordinator.base_url = once

====
